---- MODULE Spec2Model ----
(***************************************************************************)
(* A model of proc_extrato.py: the Brazilian numeric-token recogniser, the *)
(* line classifier, the field extractor, the tolerant table extractor with *)
(* its running balance, and main()'s dispatch with the table -> text       *)
(* fallback.                                                               *)
(*                                                                         *)
(* A Python str is a sequence of one-character strings.  Python's None is  *)
(* the empty tuple and any other optional value x is <<x>>.  A float that  *)
(* holds an amount is the integer number of 10^-FracDigits units.          *)
(***************************************************************************)
EXTENDS Integers, Sequences, FiniteSets, TLC

\* ------------------------------------------------------------------ bounds

\* A generated text line is the concatenation of at most MaxParts fragments.
MaxParts == 4
\* A classified line is the concatenation of at most MaxWords fragments.
MaxWords == 3
\* A table document has at most MaxRows rows (process_pdf_tables alone).
MaxRows == 3
\* A source read by main() has at most MaxUnits lines or rows.
MaxUnits == 2
\* Amounts carry at most FracDigits decimal digits.
FracDigits == 3

VARIABLES
    linha,           \* the str handed to the function under check
    filtro,          \* the classifier's arguments and its verdict, or None
    campos,          \* extrair_campos_texto's return value, or None
    pc,              \* where main() is
    func,            \* the process_* function called last, "" before any
    ext,             \* input_path.suffix.lower()
    args,            \* the parsed command line
    limit,           \* how many lines or rows the source holds at most
    units,           \* the lines or rows the running function has read
    rows,            \* the list of records built so far / returned
    origem,          \* for each record, the index in units it was made from
    saldo_corrente,  \* the running balance of process_pdf_tables, or None
    tables_out,      \* what process_pdf_tables returned to main(), or None
    text_out,        \* what process_pdf_text returned to main(), or None
    saida            \* what main() reported

vars == << linha, filtro, campos, pc, func, ext, args, limit, units, rows,
           origem, saldo_corrente, tables_out, text_out, saida >>

lineVars == << linha, filtro, campos >>
progVars == << pc, func, ext, args, limit, units, rows, origem,
               saldo_corrente, tables_out, text_out, saida >>

None == << >>
Some(x) == << x >>

\* ------------------------------------------------------------ str helpers

Digit == {"0", "1", "2", "3", "4", "5", "6", "7", "8", "9"}
IsDigit(c) == c \in Digit
\* The whitespace characters of the model (str.isspace / regex \s).
IsSpace(c) == c \in {" ", "\t"}

\* s[i] of a pattern engine: the character, or "" past either end.
At(s, i) == IF i >= 1 /\ i <= Len(s) THEN s[i] ELSE ""

Max(S) == CHOOSE x \in S : \A y \in S : y <= x
\* The largest element of S, d when S is empty
MaxOr(S, d) == IF S = {} THEN d ELSE Max(S)
Min2(a, b) == IF a <= b THEN a ELSE b

RECURSIVE Concat(_)
Concat(ss) == IF ss = << >> THEN << >> ELSE Head(ss) \o Concat(Tail(ss))

\* s[n:] and s[:n] with a Python offset n (0-based, n <= len(s)).
From(s, n) == SubSeq(s, n + 1, Len(s))
UpTo(s, n) == SubSeq(s, 1, n)

RECURSIVE lstrip(_)
lstrip(s) == IF s # << >> /\ IsSpace(s[1]) THEN lstrip(Tail(s)) ELSE s

RECURSIVE rstrip(_)
rstrip(s) ==
    IF s # << >> /\ IsSpace(s[Len(s)]) THEN rstrip(SubSeq(s, 1, Len(s) - 1)) ELSE s

strip(s) == rstrip(lstrip(s))

\* re.sub(r'\s+', ' ', s): every maximal whitespace run becomes one space.
RECURSIVE SubSpaces(_)
SubSpaces(s) ==
    IF s = << >> THEN << >>
    ELSE IF IsSpace(s[1]) THEN <<" ">> \o SubSpaces(lstrip(s))
    ELSE << s[1] >> \o SubSpaces(Tail(s))

limpar(s) == IF s = None THEN << >> ELSE strip(SubSpaces(s[1]))

LowerCase ==
    <<"a", "b", "c", "d", "e", "f", "g", "h", "i", "j", "k", "l", "m", "n", "o",
      "p", "q", "r", "s", "t", "u", "v", "w", "x", "y", "z",
      "á", "â", "ã", "à", "é", "ê", "í", "ó", "ô", "õ", "ú", "ç">>
UpperCase ==
    <<"A", "B", "C", "D", "E", "F", "G", "H", "I", "J", "K", "L", "M", "N", "O",
      "P", "Q", "R", "S", "T", "U", "V", "W", "X", "Y", "Z",
      "Á", "Â", "Ã", "À", "É", "Ê", "Í", "Ó", "Ô", "Õ", "Ú", "Ç">>

UpperChar(c) ==
    IF \E i \in 1..Len(LowerCase) : LowerCase[i] = c
    THEN UpperCase[CHOOSE i \in 1..Len(LowerCase) : LowerCase[i] = c]
    ELSE c

\* str.upper()
upper(s) == [i \in 1..Len(s) |-> UpperChar(s[i])]

\* s.startswith(w), starting at 1-based position i
MatchesAt(s, i, w) ==
    /\ i + Len(w) - 1 <= Len(s)
    /\ \A k \in 1..Len(w) : s[i + k - 1] = w[k]

\* w in s
In(w, s) == \E i \in 1..(Len(s) + 1) : MatchesAt(s, i, w)

startswith(s, w) == MatchesAt(s, 1, w)

\* s.rfind(w) as a Python offset, -1 when w does not occur
rfind(s, w) == MaxOr({i - 1 : i \in {j \in 1..(Len(s) + 1) : MatchesAt(s, j, w)}}, -1)

\* ----------------------------------------------------- RE_NUM_BR (line 35)
\* A pattern is tried at a 1-based position and gives the position after its
\* match, or 0 when it does not match.  Every quantifier of RE_NUM_BR is
\* greedy and what it repeats has a fixed shape, so the match the engine finds
\* first among the ways to match is the one that ends last.

\* How many digits stand at s[i], s[i+1], ...
RECURSIVE DigitRun(_, _)
DigitRun(s, i) == IF IsDigit(At(s, i)) THEN 1 + DigitRun(s, i + 1) ELSE 0

\* How many groups \.\d{3} stand at s[i...]
RECURSIVE GroupRun(_, _)
GroupRun(s, i) ==
    IF At(s, i) = "." /\ IsDigit(At(s, i + 1)) /\ IsDigit(At(s, i + 2))
       /\ IsDigit(At(s, i + 3))
    THEN 1 + GroupRun(s, i + 4)
    ELSE 0

\* (?![\d,]) at position e
NotDigitOrComma(s, e) == ~IsDigit(At(s, e)) /\ At(s, e) # ","

\* (?:,\d+)?(?![\d,]) from position b: with d decimals, or with none.
NumTail(s, b) ==
    MaxOr({b + 1 + d : d \in {k \in 1..(IF At(s, b) = "," THEN DigitRun(s, b + 1) ELSE 0) :
                                 NotDigitOrComma(s, b + 1 + k)}}
          \cup (IF NotDigitOrComma(s, b) THEN {b} ELSE {}), 0)

\* (?:\.\d{3})* and the tail, from position a: with g groups.
NumGroups(s, a) == MaxOr({NumTail(s, a + 4 * g) : g \in 0..GroupRun(s, a)} \ {0}, 0)

\* \d{1,3} and the rest, from position q: with n digits.
NumDigits(s, q) ==
    MaxOr({NumGroups(s, q + n) : n \in 1..Min2(3, DigitRun(s, q))} \ {0}, 0)

\* [+-]? at position p
SignEnd(s, p) == IF At(s, p) \in {"+", "-"} THEN p + 1 ELSE p

\* First alternative at position p:
\* (?<!\d)[+-]?\d{1,3}(?:\.\d{3})*(?:,\d+)?(?![\d,])
NumAlt1(s, p) == IF IsDigit(At(s, p - 1)) THEN 0 ELSE NumDigits(s, SignEnd(s, p))

\* \d+,\d+ from position q: with m digits before the comma.
NumDecimal(s, q) ==
    MaxOr({q + m + 1 + DigitRun(s, q + m + 1) :
              m \in {k \in 1..DigitRun(s, q) :
                        At(s, q + k) = "," /\ DigitRun(s, q + k + 1) >= 1}}, 0)

\* Second alternative at position p: [+-]?\d+,\d+
NumAlt2(s, p) == NumDecimal(s, SignEnd(s, p))

\* a|b: the first alternative that matches
FirstMatch(a, b) == IF a # 0 THEN a ELSE b

\* RE_NUM_BR tried at position p
RE_NUM_BR_at(s, p) == FirstMatch(NumAlt1(s, p), NumAlt2(s, p))

\* RE_NUM_BR.finditer(s) from position p on: the matches left to right, each
\* with its Python offsets start (inclusive) and end (exclusive).
RECURSIVE finditer_from(_, _)
RECURSIVE finditer_step(_, _, _)
finditer_step(s, p, e) ==
    IF e # 0
    THEN << [start |-> p - 1, end |-> e - 1] >> \o finditer_from(s, e)
    ELSE finditer_from(s, p + 1)

finditer_from(s, p) ==
    IF p > Len(s) THEN << >> ELSE finditer_step(s, p, RE_NUM_BR_at(s, p))

finditer(s) == finditer_from(s, 1)

\* m.group(0)
group0(s, m) == SubSeq(s, m.start + 1, m.end)

\* [m.group(0) for m in ms]
groups(s, ms) == [i \in 1..Len(ms) |-> group0(s, ms[i])]

\* RE_NUM_BR.findall(s)
findall(s) == groups(s, finditer(s))

\* ------------------------------------------------ RE_DATA_INICIO (line 32)

\* (\d{2}/\d{2}/\d{4})\s+ at position i, ws whitespace characters after the
\* date: None, or the match with group 1 and the offset m.end().
date_at(s, i, ws) ==
    IF /\ IsDigit(At(s, i)) /\ IsDigit(At(s, i + 1)) /\ At(s, i + 2) = "/"
       /\ IsDigit(At(s, i + 3)) /\ IsDigit(At(s, i + 4)) /\ At(s, i + 5) = "/"
       /\ IsDigit(At(s, i + 6)) /\ IsDigit(At(s, i + 7))
       /\ IsDigit(At(s, i + 8)) /\ IsDigit(At(s, i + 9))
       /\ ws >= 1
    THEN Some([group1 |-> SubSeq(s, i, i + 9), end |-> i + 9 + ws])
    ELSE None

\* How many whitespace characters stand at s[i...]
SpaceRun(s, i) == Len(From(s, i - 1)) - Len(lstrip(From(s, i - 1)))

\* ^\s* then the date from position i
date_from(s, i) == date_at(s, i, SpaceRun(s, i + 10))

\* RE_DATA_INICIO.match(s)
RE_DATA_INICIO_match(s) == date_from(s, SpaceRun(s, 1) + 1)

\* ------------------------------------------ extrair_campos_texto (95-123)

\* Lines 109-123 taking the first two numbers of the line instead of the last
\* two.
campos_primeiros_numeros(data, sem_data, nums) ==
    IF Len(nums) >= 2
    THEN [data |-> data,
          descricao |-> strip(SubSpaces(rstrip(UpTo(sem_data, nums[1].start)))),
          penultimo_valor |-> group0(sem_data, nums[1]),
          saldo |-> group0(sem_data, nums[2])]
    ELSE [data |-> data,
          descricao |-> strip(SubSpaces(sem_data)),
          penultimo_valor |-> << >>,
          saldo |-> IF Len(nums) = 1 THEN group0(sem_data, nums[1]) ELSE << >>]

\* Lines 109-123 cutting a lone number out of the description, as is done for
\* two numbers.
campos_sem_numero_unico(data, sem_data, nums) ==
    IF Len(nums) >= 2
    THEN [data |-> data,
          descricao |-> strip(SubSpaces(rstrip(UpTo(sem_data, nums[Len(nums) - 1].start)))),
          penultimo_valor |-> group0(sem_data, nums[Len(nums) - 1]),
          saldo |-> group0(sem_data, nums[Len(nums)])]
    ELSE IF Len(nums) = 1
    THEN [data |-> data,
          descricao |-> strip(SubSpaces(UpTo(sem_data, nums[1].start))),
          penultimo_valor |-> << >>,
          saldo |-> group0(sem_data, nums[1])]
    ELSE [data |-> data,
          descricao |-> strip(SubSpaces(sem_data)),
          penultimo_valor |-> << >>,
          saldo |-> << >>]

\* Lines 109-123: the fields from the date, the text after it and the matches
\* of RE_NUM_BR in that text.
campos_nums(data, sem_data, nums) ==
    IF Len(nums) >= 2
    THEN [data |-> data,
          descricao |-> strip(SubSpaces(rstrip(UpTo(sem_data, nums[Len(nums) - 1].start)))),
          penultimo_valor |-> group0(sem_data, nums[Len(nums) - 1]),
          saldo |-> group0(sem_data, nums[Len(nums)])]
    ELSE IF Len(nums) = 1
    THEN [data |-> data,
          descricao |-> strip(SubSpaces(sem_data)),
          penultimo_valor |-> << >>,
          saldo |-> group0(sem_data, nums[Len(nums)])]
    ELSE [data |-> data,
          descricao |-> strip(SubSpaces(sem_data)),
          penultimo_valor |-> << >>,
          saldo |-> << >>]

\* Line 108
campos_sem_data(data, sem_data) == campos_nums(data, sem_data, finditer(sem_data))

\* Lines 101-106
campos_match(original, m) ==
    IF m # None
    THEN campos_sem_data(m[1].group1, From(original, m[1].end))
    ELSE campos_sem_data(<< >>, original)

\* Lines 99-100
campos_original(original) == campos_match(original, RE_DATA_INICIO_match(original))

extrair_campos_texto(linha_) == campos_original(strip(linha_))

\* ------------------------------------------------- STOPWORDS (lines 39-45)

STOPWORDS ==
  << <<"P", "Á", "G", "I", "N", "A">>,
     <<"P", "A", "G", "I", "N", "A">>,
     <<"P", "Á", "G">>,
     <<"P", "A", "G">>,
     <<"A", "G", "Ê", "N", "C", "I", "A">>,
     <<"A", "G", "E", "N", "C", "I", "A">>,
     <<"C", "N", "P", "J">>,
     <<"B", "A", "N", "C", "O">>,
     <<"W", "W", "W">>,
     <<"S", "I", "T", "E">>,
     <<"C", "E", "N", "T", "R", "A", "L", " ", "D", "E", " ", "A", "T", "E", "N", "D", "I", "M", "E", "N", "T", "O">>,
     <<"O", "U", "V", "I", "D", "O", "R", "I", "A">>,
     <<"A", "T", "E", "N", "D", "I", "M", "E", "N", "T", "O">>,
     <<"S", "A", "C">>,
     <<"S", "A", "L", "D", "O", " ", "D", "O", " ", "D", "I", "A">>,
     <<"E", "X", "T", "R", "A", "T", "O">>,
     <<"D", "E", "M", "O", "N", "S", "T", "R", "A", "T", "I", "V", "O">>,
     <<"E", "N", "D", "E", "R", "E", "Ç", "O">>,
     <<"E", "N", "D", "E", "R", "E", "C", "O">>,
     <<"C", "P", "F", "/", "C", "N", "P", "J">>,
     <<"H", "O", "R", "Á", "R", "I", "O">>,
     <<"H", "O", "R", "A", "R", "I", "O">> >>

\* ------------------------------------------------ the classifier (59-75)

contar_numeros_br(texto) == Len(findall(texto))

\* any(k.strip().upper() in u for k in contains_any if k.strip())
AnyKeyword(contains_any, u) ==
    \E i \in 1..Len(contains_any) :
        /\ strip(contains_any[i]) # << >>
        /\ In(upper(strip(contains_any[i])), u)

\* Lines 64-75 letting an allow-keyword rescue a line from the stopwords.
transaction_checks_keyword_first(line, u, require_date, min_numbers, contains_any) ==
    IF contains_any # << >> /\ AnyKeyword(contains_any, u) THEN TRUE
    ELSE IF \E i \in 1..Len(STOPWORDS) : In(STOPWORDS[i], u) THEN FALSE
    ELSE IF require_date /\ RE_DATA_INICIO_match(line) = None THEN FALSE
    ELSE IF min_numbers > 0 /\ contar_numeros_br(line) < min_numbers THEN FALSE
    ELSE contains_any = << >>

\* Lines 64-75: the checks on the line and its upper-case form u.
transaction_checks(line, u, require_date, min_numbers, contains_any) ==
    IF \E i \in 1..Len(STOPWORDS) : In(STOPWORDS[i], u) THEN FALSE
    ELSE IF require_date /\ RE_DATA_INICIO_match(line) = None THEN FALSE
    ELSE IF min_numbers > 0 /\ contar_numeros_br(line) < min_numbers THEN FALSE
    ELSE IF contains_any # << >> /\ ~AnyKeyword(contains_any, u) THEN FALSE
    ELSE TRUE

is_transaction_line(line, require_date, min_numbers, contains_any) ==
    transaction_checks(line, upper(line), require_date, min_numbers, contains_any)

\* s.split(","): the pieces between the commas, empty ones included.
RECURSIVE split(_)
RECURSIVE split_at(_, _)
split_at(s, c) == << SubSeq(s, 1, c - 1) >> \o split(From(s, c))

split(s) ==
    IF \A i \in 1..Len(s) : s[i] # "," THEN << s >>
    ELSE split_at(s, CHOOSE i \in 1..Len(s) :
                         s[i] = "," /\ \A j \in 1..(i - 1) : s[j] # ",")

\* main(), lines 333 and 341: the contains_any handed to process_pdf_text.
contains_any_of(contains) == IF contains # << >> THEN split(contains) ELSE << >>

\* ------------------------------------- br_to_float / float_to_br (79-91)

Unit == 10 ^ FracDigits

DigitChars == <<"0", "1", "2", "3", "4", "5", "6", "7", "8", "9">>
DigitVal(c) == (CHOOSE i \in 1..10 : DigitChars[i] = c) - 1

\* int() of a string of digits, 0 for the empty one
RECURSIVE NatOf(_)
NatOf(ds) ==
    IF ds = << >> THEN 0
    ELSE 10 * NatOf(SubSeq(ds, 1, Len(ds) - 1)) + DigitVal(ds[Len(ds)])

\* s.replace(a, "") and s.replace(a, b) for single characters
Without(s, a) == SelectSeq(s, LAMBDA c : c # a)
Replaced(s, a, b) == [i \in 1..Len(s) |-> IF s[i] = a THEN b ELSE s[i]]

\* The digits fp after the point, in units of 10^-FracDigits
FracOf(fp, k) == NatOf(SubSeq(fp, 1, k)) * 10 ^ (FracDigits - k)

\* float() of a sign, the digits ip before the point and the digits fp after
\* it: None for a ValueError, else the value in units of 10^-FracDigits.
float_parts(neg, ip, fp) ==
    IF /\ \A i \in 1..Len(ip) : IsDigit(ip[i])
       /\ \A i \in 1..Len(fp) : IsDigit(fp[i])
       /\ Len(ip) + Len(fp) >= 1
    THEN Some((IF neg THEN -1 ELSE 1)
              * (NatOf(ip) * Unit + FracOf(fp, Min2(Len(fp), FracDigits))))
    ELSE None

float_point(neg, body, dots) ==
    IF Cardinality(dots) > 1 THEN None
    ELSE float_parts(neg, SubSeq(body, 1, MaxOr(dots, Len(body) + 1) - 1),
                     SubSeq(body, MaxOr(dots, Len(body) + 1) + 1, Len(body)))

float_body(neg, body) == float_point(neg, body, {i \in 1..Len(body) : body[i] = "."})

\* float(t) for the plain decimal forms: a sign, digits, one point.
float(t) ==
    float_body(At(t, 1) = "-", IF At(t, 1) \in {"+", "-"} THEN Tail(t) ELSE t)

\* Lines 84-87
float_or_zero(f) == IF f # None THEN f[1] ELSE 0

\* Lines 81-83
br_to_float_stripped(t) ==
    IF t = << >> THEN 0
    ELSE float_or_zero(float(Replaced(Without(t, "."), ",", ".")))

br_to_float(s) == br_to_float_stripped(strip(s))

\* The decimal digits of n >= 0
RECURSIVE NatStr(_)
NatStr(n) ==
    IF n < 10 THEN << DigitChars[n + 1] >>
    ELSE NatStr(n \div 10) \o << DigitChars[(n % 10) + 1] >>

\* n >= 0 with a period before every group of three digits
RECURSIVE Grouped(_)
Grouped(n) ==
    IF n < 1000 THEN NatStr(n)
    ELSE Grouped(n \div 1000)
         \o << ".", DigitChars[((n \div 100) % 10) + 1],
               DigitChars[((n \div 10) % 10) + 1], DigitChars[(n % 10) + 1] >>

\* q hundredths and r units of 10^-FracDigits more, rounded to hundredths
\* (to even on a tie)
RoundCents(q, r, step) ==
    IF 2 * r > step \/ (2 * r = step /\ q % 2 = 1) THEN q + 1 ELSE q

\* Hundredths as text: grouped integer part, comma, two decimals
CentsText(neg, cents) ==
    (IF neg THEN <<"-">> ELSE << >>)
    \o Grouped(cents \div 100)
    \o << ",", DigitChars[((cents \div 10) % 10) + 1], DigitChars[(cents % 10) + 1] >>

\* |x| split in hundredths and the rest
abs_to_br(neg, a, step) == CentsText(neg, RoundCents(a \div step, a % step, step))

\* f"{x:,.2f}" with the separators swapped: x rounded to two decimals,
\* grouped, the sign of x kept.
float_to_br(x) == abs_to_br(x < 0, IF x < 0 THEN 0 - x ELSE x, Unit \div 100)

\* ------------------------------------------- process_pdf_tables (154-251)

\* sep.join(cells)
RECURSIVE join(_, _)
join(sep, cells) ==
    IF cells = << >> THEN << >>
    ELSE IF Len(cells) = 1 THEN cells[1]
    ELSE cells[1] \o sep \o join(sep, Tail(cells))

\* s.strip(" |")
RECURSIVE strip_bars(_)
strip_bars(s) ==
    IF s # << >> /\ s[1] \in {" ", "|"} THEN strip_bars(Tail(s))
    ELSE IF s # << >> /\ s[Len(s)] \in {" ", "|"}
    THEN strip_bars(SubSeq(s, 1, Len(s) - 1))
    ELSE s

\* [limpar(c) for c in kept]
limpar_all(kept) == [i \in 1..Len(kept) |-> limpar(kept[i])]

\* [limpar(c) for c in r if c is not None]
cells_of(r) == limpar_all(SelectSeq(r, LAMBDA c : c # None))

TitleMark    == <<"E", "X", "T", "R", "A", "T", "O", " ">>
PeriodMarkA  == <<"P", "E", "R", "Í", "O", "D", "O", " ", "D", "E">>
PeriodMark   == <<"P", "E", "R", "I", "O", "D", "O", " ", "D", "E">>
HeadData     == <<"D", "A", "T", "A">>
HeadDescri   == <<"D", "E", "S", "C", "R", "I">>
HeadValor    == <<"V", "A", "L", "O", "R">>
SALDO_ANTERIOR == <<"S", "A", "L", "D", "O", " ", "A", "N", "T", "E", "R", "I", "O", "R">>

\* One record of the output: (data, descricao, penultimo_valor, saldo,
\* linha_original)
Record(data, descricao, penultimo_valor, saldo, linha_original) ==
    [data |-> data, descricao |-> descricao, penultimo_valor |-> penultimo_valor,
     saldo |-> saldo, linha_original |-> linha_original]

\* What one pass of a loop gives: the records appended and the running
\* balance after it.
Pass(recs, saldo) == [rows |-> recs, saldo |-> saldo]

\* resto[:idx].strip() if idx != -1 else resto (229-230, 237-238)
descricao_idx(resto, idx) == IF idx # -1 THEN strip(UpTo(resto, idx)) ELSE resto

\* Lines 229-230 and 247
descricao_ate(resto, valor) == strip(SubSpaces(descricao_idx(resto, rfind(resto, valor))))

\* Lines 243-249 without the update of the running balance from saldo_str.
emit_row_sem_resync(data, resto, valor, saldo_str, joined, saldo) ==
    Pass(<< Record(data, descricao_ate(resto, valor), valor, saldo_str,
                   strip_bars(joined)) >>,
         saldo)

\* Lines 243-249: the running balance follows a stated or computed balance,
\* and the record is appended.
emit_row(data, resto, valor, saldo_str, joined, saldo) ==
    Pass(<< Record(data, descricao_ate(resto, valor), valor, saldo_str,
                   strip_bars(joined)) >>,
         IF saldo_str # << >> THEN Some(br_to_float(saldo_str)) ELSE saldo)

\* Lines 231-238 taking the lone value off the running balance.
one_value_subtracting(data, resto, valor, joined, saldo) ==
    IF saldo # None
    THEN emit_row(data, resto, valor, float_to_br(saldo[1] - br_to_float(valor)),
                  joined, Some(saldo[1] - br_to_float(valor)))
    ELSE emit_row(data, resto, valor, << >>, joined, saldo)

\* Lines 231-238: a lone value advances the running balance, when there is
\* one, and the balance is its text.
one_value(data, resto, valor, joined, saldo) ==
    IF saldo # None
    THEN emit_row(data, resto, valor, float_to_br(saldo[1] + br_to_float(valor)),
                  joined, Some(saldo[1] + br_to_float(valor)))
    ELSE emit_row(data, resto, valor, << >>, joined, saldo)

\* Lines 220-241: by the number of values in the rest of the row.
data_nums(data, resto, nums, joined, saldo) ==
    IF Len(nums) >= 2
    THEN emit_row(data, resto, nums[Len(nums) - 1], nums[Len(nums)], joined, saldo)
    ELSE IF Len(nums) = 1
    THEN one_value(data, resto, nums[1], joined, saldo)
    ELSE Pass(<< >>, saldo)

\* Line 220
data_resto(data, resto, joined, saldo) ==
    data_nums(data, resto, findall(resto), joined, saldo)

\* Lines 216-217
data_match(flat, mdata, joined, saldo) ==
    IF mdata # None
    THEN data_resto(mdata[1].group1, strip(From(flat, mdata[1].end)), joined, saldo)
    ELSE data_resto(<< >>, flat, joined, saldo)

\* Lines 214-249: a row that is neither noise nor the previous balance.
data_row(flat, joined, saldo) ==
    data_match(flat, RE_DATA_INICIO_match(flat), joined, saldo)

\* Lines 209-212 taking the first number of the row as the previous balance.
saldo_anterior_primeiro(nums, joined, saldo) ==
    IF nums # << >>
    THEN Pass(<< Record(<< >>, SALDO_ANTERIOR, << >>, nums[1], joined) >>,
              Some(br_to_float(nums[1])))
    ELSE Pass(<< >>, saldo)

\* Lines 209-212: the previous balance is the last number of the row.
saldo_anterior_nums(nums, joined, saldo) ==
    IF nums # << >>
    THEN Pass(<< Record(<< >>, SALDO_ANTERIOR, << >>, nums[Len(nums)], joined) >>,
              Some(br_to_float(nums[Len(nums)])))
    ELSE Pass(<< >>, saldo)

\* Lines 207-212: the previous-balance row.
saldo_anterior_row(flat, joined, saldo) ==
    saldo_anterior_nums(findall(flat), joined, saldo)

\* Lines 194-249 on the three texts made of the cells.
row_text(joined_upper, joined, flat, saldo) ==
    IF \/ startswith(joined_upper, TitleMark)
       \/ In(PeriodMarkA, joined_upper)
       \/ In(PeriodMark, joined_upper) THEN Pass(<< >>, saldo)
    ELSE IF /\ In(HeadData, joined_upper)
            /\ In(HeadDescri, joined_upper)
            /\ In(HeadValor, joined_upper) THEN Pass(<< >>, saldo)
    ELSE IF flat = << >> THEN Pass(<< >>, saldo)
    ELSE IF In(SALDO_ANTERIOR, joined_upper)
    THEN saldo_anterior_row(flat, joined, saldo)
    ELSE data_row(flat, joined, saldo)

\* Lines 191-202
row_cells(cells, saldo) ==
    IF \A i \in 1..Len(cells) : cells[i] = << >> THEN Pass(<< >>, saldo)
    ELSE row_text(upper(join(<<" ">>, cells)), join(<<" ", "|", " ">>, cells),
                  join(<<" ">>, cells), saldo)

\* The body of the loop over the rows of a table (lines 189-249) for the row r
\* with the running balance saldo.
table_row(r, saldo) == row_cells(cells_of(r), saldo)
\* ------------------------------------------------- generated text lines

PartDate   == <<"1", "0", "/", "0", "1", "/", "2", "0", "2", "4">>
PartDesc   == <<" ", "P", "I", "X", " ", " ", "R", "E", "C", "E", "B", "I", "D", "O", " ">>
PartValor  == <<"1", "0", "0", ",", "0", "0", " ">>
PartSaldo  == <<"1", ".", "5", "0", "0", ",", "0", "0">>

Fragments ==
    { PartDate, PartDesc, PartValor, PartSaldo,
      <<" ">>, <<"\t">>, <<"7">>, <<",">>, <<"-">> }

SeqsUpTo(S, n) == UNION {[1..k -> S] : k \in 0..n}

Lines == {Concat(ps) : ps \in SeqsUpTo(Fragments, MaxParts)}

\* ------------------------------------------ the field extractor on a line

\* argparse's defaults (lines 300-306)
DefaultArgs ==
    [tables_mode |-> FALSE, keep_all_lines |-> FALSE, no_date_filter |-> FALSE,
     min_numbers |-> 2, contains |-> << >>]

IdleProgram ==
    /\ pc = "idle"
    /\ func = ""
    /\ ext = ""
    /\ args = DefaultArgs
    /\ limit = 0
    /\ units = << >>
    /\ rows = << >>
    /\ origem = << >>
    /\ saldo_corrente = None
    /\ tables_out = None
    /\ text_out = None
    /\ saida = ""

InitExtract ==
    /\ linha \in Lines
    /\ filtro = None
    /\ campos = None
    /\ IdleProgram

Extract ==
    /\ campos = None
    /\ campos' = Some(extrair_campos_texto(linha))
    /\ UNCHANGED << linha, filtro >>
    /\ UNCHANGED progVars

NextExtract == Extract

SpecExtract == InitExtract /\ [][NextExtract]_vars

\* --------------------------------------------- the command line (294-308)

\* The values of --min-numbers the model tries.
MinNumbers == {0, 1, 2, 3}
\* The values of --contains the model tries: "", "PIX", "PIX, ted" and ",".
ContainsPIX    == <<"P", "I", "X">>
ContainsPIXTed == <<"P", "I", "X", ",", " ", "t", "e", "d">>
Contains == { << >>, ContainsPIX, ContainsPIXTed, <<",">> }

\* ------------------------------------ classifying one line of a PDF's text

WordDate    == <<"1", "0", "/", "0", "1", "/", "2", "0", "2", "4", " ">>
WordPix     == <<"P", "I", "X", " ">>
WordTed     == <<" ", "t", "e", "d">>
WordAgencia == <<"A", "g", "e", "n", "c", "i", "a", " ">>
WordValor   == <<"1", "0", "0", ",", "0", "0", " ">>
WordSete    == <<"7">>

Words == { WordDate, WordPix, WordTed, WordAgencia, WordValor, WordSete }

\* The lines process_pdf_text hands on (lines 266-268): cleaned and not empty.
CleanLines ==
    {limpar(Some(Concat(ws))) : ws \in SeqsUpTo(Words, MaxWords)} \ {<< >>}

InitClassify ==
    /\ linha \in CleanLines
    /\ filtro = None
    /\ campos = None
    /\ IdleProgram

\* is_transaction_line(line, require_date, min_numbers, contains_any)
Classify(require_date, min_numbers, contains) ==
    /\ filtro = None
    /\ filtro' = Some([require_date |-> require_date,
                       min_numbers |-> min_numbers,
                       contains_any |-> contains_any_of(contains),
                       ok |-> is_transaction_line(linha, require_date, min_numbers,
                                                  contains_any_of(contains))])
    /\ UNCHANGED << linha, campos >>
    /\ UNCHANGED progVars

\* Lines 269-276: an accepted line goes on to the field extractor.
ExtractAccepted ==
    /\ filtro # None
    /\ filtro[1].ok
    /\ campos = None
    /\ campos' = Some(extrair_campos_texto(linha))
    /\ UNCHANGED << linha, filtro >>
    /\ UNCHANGED progVars

NextClassify ==
    \/ \E rd \in BOOLEAN, mn \in MinNumbers, ct \in Contains : Classify(rd, mn, ct)
    \/ ExtractAccepted

SpecClassify == InitClassify /\ [][NextClassify]_vars

\* ------------------------------------------------ the loops over a source

\* rows.append((data, desc, penult, saldo, line))
RecordOf(c, line) == Record(c.data, c.descricao, c.penultimo_valor, c.saldo, line)

\* process_txt, lines 129-133, without the check for a blank line.
txt_line_sem_filtro_vazio(line) == << RecordOf(extrair_campos_texto(line), line) >>

\* process_txt, lines 129-133, for one line of the file without its "\n"
txt_line(line) ==
    IF strip(line) = << >> THEN << >>
    ELSE << RecordOf(extrair_campos_texto(line), line) >>

\* Lines 146-149
csv_stripped(line) ==
    IF line = << >> THEN << >> ELSE << RecordOf(extrair_campos_texto(line), line) >>

\* process_csv, lines 145-149, for the value row.get(col) of one row
csv_line(cell) == csv_stripped(strip(IF cell = None THEN << >> ELSE cell[1]))

\* Lines 267-277 handing every line to the extractor, as under
\* --keep-all-lines.
pdf_text_clean_sem_filtro(line, keep_all, require_date, min_numbers, contains_any) ==
    IF line = << >> THEN << >>
    ELSE << RecordOf(extrair_campos_texto(line), line) >>

\* Lines 267-277 for the cleaned line
pdf_text_clean(line, keep_all, require_date, min_numbers, contains_any) ==
    IF line = << >> THEN << >>
    ELSE IF ~keep_all
            /\ ~is_transaction_line(line, require_date, min_numbers, contains_any)
    THEN << >>
    ELSE << RecordOf(extrair_campos_texto(line), line) >>

\* process_pdf_text, lines 266-277, for one line of a page's text
pdf_text_line(raw, keep_all, require_date, min_numbers, contains_any) ==
    pdf_text_clean(limpar(Some(raw)), keep_all, require_date, min_numbers, contains_any)

\* main() never retrying with the text of the PDF.
sem_fallback(table_rows) == FALSE

\* main(), line 327: "if not rows" after process_pdf_tables
fallback(table_rows) == table_rows = << >>

\* ----------------------------------------------------- the sources read

\* Lines of a text file, of a CSV column and of a PDF page's text.
LineBlank   == <<" ", "\t">>
LineFull    == <<"1", "0", "/", "0", "1", "/", "2", "0", "2", "4", " ", " ", "P", "I", "X", " ", "1", "0", "0", ",", "0", "0", " ", "1", ".", "5", "0", "0", ",", "0", "0">>
LineAgencia == <<"A", "G", "E", "N", "C", "I", "A", " ", "1", " ", "2">>
LineTarifa  == <<" ", "T", "A", "R", "I", "F", "A", " ", "2", "5", ",", "0", "0">>
LineDatePix == <<"1", "0", "/", "0", "1", "/", "2", "0", "2", "4", " ", "P", "I", "X">>

RawLines == { LineBlank, LineFull, LineAgencia, LineTarifa, LineDatePix }
CsvCells == { None } \cup { Some(l) : l \in RawLines }

\* Rows of a PDF table: each a list of cells, a cell a str or None.
CellDate    == <<"1", "0", "/", "0", "1", "/", "2", "0", "2", "4">>
CellAnt     == <<"S", "a", "l", "d", "o", " ", "A", "n", "t", "e", "r", "i", "o", "r">>
Cell1000    == <<"1", ".", "0", "0", "0", ",", "0", "0">>
Cell50      == <<"5", "0", ",", "0", "0">>
Cell10      == <<"1", "0", ",", "0", "0">>
Cell1040    == <<"1", ".", "0", "4", "0", ",", "0", "0">>
CellPix     == <<" ", "P", "I", "X", " ", " ">>
CellTed     == <<"T", "E", "D">>
CellMilli   == <<"0", ",", "0", "0", "4">>
CellNeg     == <<"-", "1", "0", ",", "0", "0">>
CellTitle   == <<"E", "x", "t", "r", "a", "t", "o", " ", "d", "e", " ", "c", "o", "n", "t", "a">>
CellPeriod  == <<"P", "e", "r", "í", "o", "d", "o", " ", "d", "e", " ", "0", "1", "/", "0", "1", "/", "2", "0", "2", "4">>

RowAnterior    == << Some(CellDate), Some(CellAnt), None, Some(Cell1000) >>
RowAnteriorSem == << Some(SALDO_ANTERIOR) >>
RowUmValor     == << Some(CellDate), Some(CellPix), Some(Cell50) >>
RowDoisValores == << Some(CellTed), Some(Cell10), Some(Cell1040) >>
RowHeader      == << Some(<<"D", "a", "t", "a">>),
                     Some(<<"D", "e", "s", "c", "r", "i", "ç", "ã", "o">>),
                     Some(<<"V", "a", "l", "o", "r">>), Some(<<"S", "a", "l", "d", "o">>) >>
RowTitle       == << Some(CellTitle) >>
RowPeriod      == << Some(CellPeriod) >>
RowEmpty       == << Some(<< >>), None >>
RowSemNumero   == << Some(CellPix) >>
RowBarras      == << Some(<<"|">>), Some(<<"7">>) >>
RowMilli       == << Some(CellMilli) >>
RowNegativo    == << Some(CellNeg) >>

TableRows ==
    { RowAnterior, RowAnteriorSem, RowUmValor, RowDoisValores, RowHeader, RowTitle,
      RowPeriod, RowEmpty, RowSemNumero, RowBarras, RowMilli, RowNegativo }

\* The command lines main() is run with.
ArgSets ==
    [tables_mode : BOOLEAN, keep_all_lines : BOOLEAN, no_date_filter : BOOLEAN,
     min_numbers : {0, 2}, contains : {<< >>, ContainsPIX}]

Exts == {".txt", ".csv", ".pdf", ".xls"}

\* ------------------------------------------------------ the program steps

NoLine ==
    /\ linha = << >>
    /\ filtro = None
    /\ campos = None

Fresh ==
    /\ units = << >>
    /\ rows = << >>
    /\ origem = << >>
    /\ saldo_corrente = None
    /\ tables_out = None
    /\ text_out = None
    /\ saida = ""

\* main() entered (line 291) with a command line and an input file.
Init ==
    /\ NoLine
    /\ pc = "main"
    /\ func = ""
    /\ ext \in Exts
    /\ args \in ArgSets
    /\ limit = MaxUnits
    /\ Fresh

\* process_pdf_tables entered (line 154) by main() under --tables-mode.
InitTables ==
    /\ NoLine
    /\ pc = "process_pdf_tables"
    /\ func = "process_pdf_tables"
    /\ ext = ".pdf"
    /\ args = [DefaultArgs EXCEPT !.tables_mode = TRUE]
    /\ limit = MaxRows
    /\ Fresh

\* main(), lines 318-344: the function the suffix selects; process_csv leaves
\* at once when the column is not given or not in the header (137-143).
Dispatch ==
    /\ pc = "main"
    /\ \E col_found \in BOOLEAN :
        LET f == IF ext = ".txt" THEN "process_txt"
                 ELSE IF ext = ".csv" /\ col_found THEN "process_csv"
                 ELSE IF ext = ".pdf" /\ args.tables_mode THEN "process_pdf_tables"
                 ELSE IF ext = ".pdf" THEN "process_pdf_text"
                 ELSE "SystemExit"
        IN  /\ pc' = IF f = "SystemExit" THEN "exit" ELSE f
            /\ func' = IF f = "SystemExit" THEN IF ext = ".csv" THEN "process_csv" ELSE "" ELSE f
            /\ saida' = IF f = "SystemExit" THEN "SystemExit" ELSE saida
    /\ UNCHANGED << linha, filtro, campos, ext, args, limit, units, rows, origem,
                    saldo_corrente, tables_out, text_out >>

\* The running function read the unit u and appended the records recs.
Emit(u, recs) ==
    /\ units' = Append(units, u)
    /\ rows' = rows \o recs
    /\ origem' = origem \o [i \in 1..Len(recs) |-> Len(units) + 1]

\* process_pdf_tables read the row r; its pass through the loop gave t.
EmitPass(r, t) ==
    /\ Emit(r, t.rows)
    /\ saldo_corrente' = t.saldo

ReadTxtLine ==
    /\ pc = "process_txt"
    /\ Len(units) < limit
    /\ \E line \in RawLines : Emit(line, txt_line(line))
    /\ UNCHANGED << linha, filtro, campos, pc, func, ext, args, limit,
                    saldo_corrente, tables_out, text_out, saida >>

ReadCsvRow ==
    /\ pc = "process_csv"
    /\ Len(units) < limit
    /\ \E cell \in CsvCells : Emit(cell, csv_line(cell))
    /\ UNCHANGED << linha, filtro, campos, pc, func, ext, args, limit,
                    saldo_corrente, tables_out, text_out, saida >>

ReadPdfTextLine ==
    /\ pc = "process_pdf_text"
    /\ Len(units) < limit
    /\ \E raw \in RawLines :
        Emit(raw, pdf_text_line(raw, args.keep_all_lines, ~args.no_date_filter,
                                args.min_numbers, contains_any_of(args.contains)))
    /\ UNCHANGED << linha, filtro, campos, pc, func, ext, args, limit,
                    saldo_corrente, tables_out, text_out, saida >>

ReadTableRow ==
    /\ pc = "process_pdf_tables"
    /\ Len(units) < limit
    /\ \E r \in TableRows : EmitPass(r, table_row(r, saldo_corrente))
    /\ UNCHANGED << linha, filtro, campos, pc, func, ext, args, limit,
                    tables_out, text_out, saida >>

\* "return rows": back in main() at line 327 after process_pdf_tables, at line
\* 346 after the others.
Return ==
    /\ pc \in {"process_txt", "process_csv", "process_pdf_tables", "process_pdf_text"}
    /\ pc' = IF pc = "process_pdf_tables" THEN "main_327" ELSE "main_346"
    /\ tables_out' = IF pc = "process_pdf_tables" THEN Some(rows) ELSE tables_out
    /\ text_out' = IF pc = "process_pdf_text" THEN Some(rows) ELSE text_out
    /\ UNCHANGED << linha, filtro, campos, func, ext, args, limit, units, rows,
                    origem, saldo_corrente, saida >>

\* main(), lines 327-334: with no record from the tables, process_pdf_text is
\* called on the same file.
Fallback ==
    /\ pc = "main_327"
    /\ IF fallback(rows)
       THEN /\ pc' = "process_pdf_text"
            /\ func' = "process_pdf_text"
            /\ units' = << >>
            /\ rows' = << >>
            /\ origem' = << >>
       ELSE /\ pc' = "main_346"
            /\ UNCHANGED << func, units, rows, origem >>
    /\ UNCHANGED << linha, filtro, campos, ext, args, limit, saldo_corrente,
                    tables_out, text_out, saida >>

\* main(), lines 346-351
Report ==
    /\ pc = "main_346"
    /\ pc' = "done"
    /\ saida' = IF rows = << >> THEN "Nenhuma linha processada." ELSE "Gerado"
    /\ UNCHANGED << linha, filtro, campos, func, ext, args, limit, units, rows,
                    origem, saldo_corrente, tables_out, text_out >>

Next ==
    \/ Dispatch
    \/ ReadTxtLine
    \/ ReadCsvRow
    \/ ReadPdfTextLine
    \/ ReadTableRow
    \/ Return
    \/ Fallback
    \/ Report

Spec == Init /\ [][Next]_vars

NextTables == ReadTableRow \/ Return

SpecTables == InitTables /\ [][NextTables]_vars

\* ======================================================== the claims

\* What the claims call the working string of a line: the trimmed line, and
\* when that begins with DD/MM/YYYY and whitespace, what follows them.
DateShaped(t) ==
    /\ Len(t) >= 10
    /\ \A i \in {1, 2, 4, 5, 7, 8, 9, 10} : IsDigit(t[i])
    /\ t[3] = "/" /\ t[6] = "/"
HasLeadingDate(t) == DateShaped(t) /\ Len(t) >= 11 /\ IsSpace(t[11])
LeadingDate(line) ==
    IF HasLeadingDate(strip(line)) THEN SubSeq(strip(line), 1, 10) ELSE << >>
WorkingString(line) ==
    IF HasLeadingDate(strip(line)) THEN lstrip(From(strip(line), 10)) ELSE strip(line)
\* Whitespace runs collapsed to single spaces, then trimmed.
Collapsed(s) == strip(SubSpaces(s))
TokenCount(s) == Len(finditer(s))
\* The text of the k-th token from the end of s (k = 1 is the last one).
TokenFromEnd(s, k) == group0(s, finditer(s)[TokenCount(s) - k + 1])

\* C1: with two or more numeric tokens in the working string, extract returns
\* the second-to-last token as secondary_value, the last token as balance, the
\* working string cut at the start offset of the second-to-last token
\* (collapsed, trimmed) as description, and the leading date or "" as date.
C1_TwoTokens ==
    campos # None =>
        \A w \in {WorkingString(linha)} : \A tokens \in {finditer(w)} :
            Len(tokens) >= 2 =>
                /\ campos[1].penultimo_valor = group0(w, tokens[Len(tokens) - 1])
                /\ campos[1].saldo = group0(w, tokens[Len(tokens)])
                /\ campos[1].descricao =
                       Collapsed(UpTo(w, tokens[Len(tokens) - 1].start))
                /\ campos[1].data = LeadingDate(linha)

\* C1 happens: a dated line with a description and two tokens was split.
C1_Witness ==
    /\ campos # None
    /\ TokenCount(WorkingString(linha)) >= 2
    /\ campos[1].data = PartDate
    /\ campos[1].descricao = <<"P", "I", "X", " ", "R", "E", "C", "E", "B", "I", "D", "O">>
    /\ campos[1].penultimo_valor = <<"1", "0", "0", ",", "0", "0">>
    /\ campos[1].saldo = PartSaldo

\* C2: with exactly one token, secondary_value is "", balance is the token and
\* the description is the whole collapsed working string, token included; with
\* no token both are ""; the empty line gives four empty strings.
C2_OneOrNoToken ==
    campos # None =>
        \A w \in {WorkingString(linha)} : \A tokens \in {finditer(w)} :
            /\ Len(tokens) = 1 =>
                /\ campos[1].penultimo_valor = << >>
                /\ campos[1].saldo = group0(w, tokens[1])
                /\ campos[1].descricao = Collapsed(w)
                /\ In(group0(w, tokens[1]), campos[1].descricao)
            /\ Len(tokens) = 0 =>
                /\ campos[1].penultimo_valor = << >>
                /\ campos[1].saldo = << >>
            /\ linha = << >> =>
                campos[1] = [data |-> << >>, descricao |-> << >>,
                             penultimo_valor |-> << >>, saldo |-> << >>]

\* C2 happens: a line with text and a single token kept the token in its
\* description.
C2_Witness ==
    /\ campos # None
    /\ TokenCount(WorkingString(linha)) = 1
    /\ campos[1].saldo = <<"1", "0", "0", ",", "0", "0">>
    /\ campos[1].descricao =
         <<"P", "I", "X", " ", "R", "E", "C", "E", "B", "I", "D", "O", " ",
           "1", "0", "0", ",", "0", "0">>

\* The four checks of the classifier, each stated on its own.
NoStopword(line) ==
    \A u \in {upper(line)} : \A i \in 1..Len(STOPWORDS) : ~In(STOPWORDS[i], u)
StartsWithDate(line) == HasLeadingDate(lstrip(line))
EnoughNumbers(line, n) == TokenCount(line) >= n
\* The allow-keywords as given: each one a substring, whatever its case.
HasKeywordAsGiven(line, kws) ==
    \A u \in {upper(line)} : \E i \in 1..Len(kws) : In(upper(kws[i]), u)
\* The allow-keywords trimmed, the blank ones left out.
HasTrimmedKeyword(line, kws) ==
    \A u \in {upper(line)} :
        \E i \in 1..Len(kws) :
            strip(kws[i]) # << >> /\ In(upper(strip(kws[i])), u)

\* C3 as stated: classify is true exactly when there is no stopword, the date
\* leads if required, the numbers suffice if any are required, and the line
\* contains one of the allow-keywords if any is given.
C3_AsStated ==
    filtro # None =>
        (filtro[1].ok <=>
            /\ NoStopword(linha)
            /\ filtro[1].require_date => StartsWithDate(linha)
            /\ filtro[1].min_numbers > 0 => EnoughNumbers(linha, filtro[1].min_numbers)
            /\ filtro[1].contains_any # << >> =>
                   HasKeywordAsGiven(linha, filtro[1].contains_any))

\* C3 amended: the same, with the allow-keywords trimmed before they are
\* looked for and the blank ones ignored (a list of blank keywords only
\* rejects every line).
C3_TrimmedKeywords ==
    filtro # None =>
        (filtro[1].ok <=>
            /\ NoStopword(linha)
            /\ filtro[1].require_date => StartsWithDate(linha)
            /\ filtro[1].min_numbers > 0 => EnoughNumbers(linha, filtro[1].min_numbers)
            /\ filtro[1].contains_any # << >> =>
                   HasTrimmedKeyword(linha, filtro[1].contains_any))

\* C3 happens: a line with a stopword and an allow-keyword was rejected, with
\* no date and no number asked for.
C3_Witness ==
    /\ filtro # None
    /\ ~filtro[1].ok
    /\ ~filtro[1].require_date
    /\ filtro[1].min_numbers = 0
    /\ In(<<"A", "G", "E", "N", "C", "I", "A">>, upper(linha))
    /\ HasTrimmedKeyword(linha, filtro[1].contains_any)

\* C10: a line the classifier accepted with the default settings has a
\* non-empty secondary_value and a non-empty balance after extraction.
C10_AcceptedHasBoth ==
    (/\ filtro # None /\ campos # None
     /\ filtro[1].ok
     /\ filtro[1].require_date
     /\ filtro[1].min_numbers = 2
     /\ filtro[1].contains_any = << >>) =>
        /\ campos[1].penultimo_valor # << >>
        /\ campos[1].saldo # << >>

\* ---- table rows, as the claims speak of them

RowText(r) == join(<<" ">>, cells_of(r))
\* Rejected as empty, title, period or header row.
RowRejected(r) ==
    \/ \A i \in 1..Len(cells_of(r)) : cells_of(r)[i] = << >>
    \/ startswith(upper(RowText(r)), TitleMark)
    \/ In(PeriodMarkA, upper(RowText(r))) \/ In(PeriodMark, upper(RowText(r)))
    \/ /\ In(HeadData, upper(RowText(r)))
       /\ In(HeadDescri, upper(RowText(r)))
       /\ In(HeadValor, upper(RowText(r)))
HasMarker(r) == In(SALDO_ANTERIOR, upper(RowText(r)))
\* The remainder of a row: its text after the leading date, if any.
Remainder(r) == WorkingString(RowText(r))
\* The step read one more row of the table.
RowRead == pc = "process_pdf_tables" /\ Len(units') = Len(units) + 1
NewRow == units'[Len(units')]
NewRecord == rows'[Len(rows')]

\* C4: a row without the previous-balance marker whose remainder has exactly
\* one numeric token emits a record with that token as secondary_value; its
\* balance is the accumulator before the row plus the token's value, as
\* Brazilian text with two decimals, when the accumulator is initialized, and
\* "" when it is not, the accumulator then staying uninitialized.
C4_LoneValue ==
    [][RowRead =>
        \A r \in {NewRow} : \A tokens \in {finditer(Remainder(r))} :
            (~RowRejected(r) /\ ~HasMarker(r) /\ Len(tokens) = 1) =>
                \A token \in {group0(Remainder(r), tokens[1])} :
                    /\ Len(rows') = Len(rows) + 1
                    /\ NewRecord.penultimo_valor = token
                    /\ IF saldo_corrente # None
                       THEN NewRecord.saldo =
                                float_to_br(saldo_corrente[1] + br_to_float(token))
                       ELSE NewRecord.saldo = << >> /\ saldo_corrente' = None]_vars

\* C4 happens: previous balance 1.000,00, then a row with the lone value 50,00
\* got the balance 1.050,00.
C4_Witness ==
    /\ units = << RowAnterior, RowUmValor >>
    /\ Len(rows) = 2
    /\ rows[2].penultimo_valor = Cell50
    /\ rows[2].saldo = <<"1", ".", "0", "5", "0", ",", "0", "0">>

\* The records emitted so far that carry a balance.
WithBalance == {i \in 1..Len(rows) : rows[i].saldo # << >>}

\* C5: within one pass over a document the accumulator is uninitialized
\* exactly when no record with a non-empty balance has been emitted, and
\* otherwise is the value of the balance of the latest such record.
C5_Accumulator ==
    pc \in {"process_pdf_tables", "main_327"} =>
        IF WithBalance = {}
        THEN saldo_corrente = None
        ELSE saldo_corrente = Some(br_to_float(rows[Max(WithBalance)].saldo))

\* C5 happens: after 1.000,00 and 1.050,00 a row stating 10,00 and 1.040,00
\* left the accumulator at 1.040,00.
C5_Witness ==
    /\ units = << RowAnterior, RowUmValor, RowDoisValores >>
    /\ Len(rows) = 3
    /\ rows[2].saldo = <<"1", ".", "0", "5", "0", ",", "0", "0">>
    /\ rows[3].penultimo_valor = Cell10
    /\ saldo_corrente = Some(1040 * Unit)

\* What a previous-balance row has to emit and leave in the accumulator,
\* given the numeric tokens found in its text.
MarkerRecordEmitted(text, tokens) ==
    /\ Len(rows') = Len(rows) + 1
    /\ NewRecord.data = << >>
    /\ NewRecord.penultimo_valor = << >>
    /\ NewRecord.descricao = SALDO_ANTERIOR
    /\ NewRecord.saldo = group0(text, tokens[Len(tokens)])
    /\ saldo_corrente' = Some(br_to_float(group0(text, tokens[Len(tokens)])))

\* C9 as stated: every row that is not rejected and contains the
\* previous-balance marker emits exactly one record (no date, no
\* secondary_value, the marker label, the row's last token as balance) and
\* sets the accumulator to that token's value.
C9_AsStated ==
    [][RowRead =>
        \A r \in {NewRow} :
            (~RowRejected(r) /\ HasMarker(r)) =>
                \A tokens \in {finditer(RowText(r))} :
                    MarkerRecordEmitted(RowText(r), tokens)]_vars

\* C9 amended: so does such a row when it holds at least one numeric token;
\* with no numeric token it emits nothing and leaves the accumulator as it
\* was.
C9_WithNumber ==
    [][RowRead =>
        \A r \in {NewRow} :
            (~RowRejected(r) /\ HasMarker(r)) =>
                \A tokens \in {finditer(RowText(r))} :
                    IF Len(tokens) >= 1
                    THEN MarkerRecordEmitted(RowText(r), tokens)
                    ELSE rows' = rows /\ saldo_corrente' = saldo_corrente]_vars

\* C9 happens: a dated previous-balance row gave one record without date.
C9_Witness ==
    /\ units = << RowAnterior >>
    /\ rows = << Record(<< >>, SALDO_ANTERIOR, << >>, Cell1000,
                        join(<<" ", "|", " ">>, cells_of(RowAnterior))) >>
    /\ saldo_corrente = Some(1000 * Unit)

\* ---- main()

\* C6: under --tables-mode, when the tables give no record the text path runs
\* on the same PDF before anything is reported, and "no line processed" is
\* reported only when the text path gave no record either; when the tables
\* give a record the result is the tables' records.
C6_Fallback ==
    /\ (tables_out = Some(<< >>) /\ pc \in {"main_346", "done"}) => text_out # None
    /\ (tables_out = Some(<< >>) /\ pc = "process_pdf_text") => saida = ""
    /\ (tables_out = Some(<< >>) /\ pc = "done") => rows = text_out[1]
    /\ (ext = ".pdf" /\ args.tables_mode /\ saida = "Nenhuma linha processada.") =>
           tables_out = Some(<< >>) /\ text_out = Some(<< >>)
    /\ (ext = ".pdf" /\ args.tables_mode) => saida # "SystemExit"
    /\ (tables_out # None /\ tables_out # Some(<< >>)) =>
           /\ text_out = None
           /\ pc \in {"main_346", "done"} => rows = tables_out[1]
           /\ pc = "done" => saida = "Gerado"

\* C6 happens: the tables gave nothing, the text path gave a record, and the
\* output was written.
C6_Witness ==
    /\ pc = "done"
    /\ tables_out = Some(<< >>)
    /\ text_out # None
    /\ text_out # Some(<< >>)
    /\ saida = "Gerado"

\* The text of a record is the text of the unit u it was made from.
TextOfUnit(text, u) ==
    IF func = "process_txt" THEN text = u
    ELSE IF func = "process_csv" THEN u # None /\ text = strip(u[1])
    ELSE IF func = "process_pdf_text" THEN text = limpar(Some(u))
    ELSE In(text, join(<<" ", "|", " ">>, cells_of(u)))

\* C7: every record's original_line is not blank and is the text of one unit
\* read; no unit gives two records, and the records are in the order of
\* their units.
C7_OneRecordPerUnit ==
    /\ Len(origem) = Len(rows)
    /\ \A i \in 1..Len(rows) :
        /\ strip(rows[i].linha_original) # << >>
        /\ origem[i] \in 1..Len(units)
        /\ TextOfUnit(rows[i].linha_original, units[origem[i]])
        /\ i > 1 => origem[i - 1] < origem[i]

\* C7 happens: of two table rows the first gave nothing and the second gave a
\* record whose original_line lost its bars.
C7_Witness ==
    /\ func = "process_pdf_tables"
    /\ units = << RowSemNumero, RowBarras >>
    /\ origem = << 2 >>
    /\ rows[1].linha_original = <<"7">>

\* The classifier under the configured settings.
Accepted(line) ==
    is_transaction_line(line, ~args.no_date_filter, args.min_numbers,
                        contains_any_of(args.contains))
\* How many of the units read are not blank.
NonBlankUnits ==
    Cardinality({k \in 1..Len(units) :
                    IF func = "process_csv"
                    THEN units[k] # None /\ strip(units[k][1]) # << >>
                    ELSE strip(units[k]) # << >>})

\* C8 as stated: in the plain-text, delimited and PDF text paths a line gives
\* a record only if the classifier accepts it, unless --keep-all-lines.
C8_AsStated ==
    (func \in {"process_txt", "process_csv", "process_pdf_text"}
     /\ ~args.keep_all_lines) =>
        \A i \in 1..Len(rows) : Accepted(rows[i].linha_original)

\* C8 amended: that holds in the PDF text path; under --keep-all-lines that
\* path gives a record for every line that is not blank, and the plain-text
\* and delimited paths always do, whatever the settings.
C8_PdfTextOnly ==
    /\ (func = "process_pdf_text" /\ ~args.keep_all_lines) =>
           \A i \in 1..Len(rows) : Accepted(rows[i].linha_original)
    /\ (func = "process_pdf_text" /\ args.keep_all_lines) =>
           Len(rows) = NonBlankUnits
    /\ func \in {"process_txt", "process_csv"} => Len(rows) = NonBlankUnits

\* C8 happens: with the default settings the PDF text path kept a dated line
\* with two numbers and dropped another line that was not blank.
C8_Witness ==
    /\ func = "process_pdf_text"
    /\ args = DefaultArgs
    /\ Len(units) = 2
    /\ NonBlankUnits = 2
    /\ Len(rows) = 1
    /\ rows[1].linha_original = limpar(Some(LineFull))

====
